---- MODULE Spec2Model ----
(***************************************************************************)
(* A model of the tag-based chatbot framework ChatBot, of the concrete bot *)
(* OxyCSBot built on it (src/oxycsbot.py), of the flagged-word predicate   *)
(* emotion_word_found (src/specific_word_detection.py) and of the Slack    *)
(* adapter (src/slackbot.py).                                              *)
(*                                                                         *)
(* Text is modelled as a sequence of characters, a character being a       *)
(* one-character string; the character U+0131 (LATIN SMALL LETTER DOTLESS  *)
(* I) is written "dotless_i".                                              *)
(***************************************************************************)
EXTENDS Integers, Sequences, FiniteSets, TLC

VARIABLES
    state,      \* self.state of the bot instance
    prev,       \* self.state when the operation run last began
    pc,         \* position of the driver (client, chat loop, Slack loop)
    op,         \* name of the operation the driver ran last
    arg,        \* its state / manner argument ("" when it has none)
    message,    \* the message (text) the driver handles
    reply,      \* the value the operation returned (None when it raised)
    err,        \* the exception the operation raised ("none" when it returned)
    calls,      \* go_to_state / finish calls made inside the operation
    tags,       \* the Counter _get_tags returned
    tagsUpper,  \* the Counter _get_tags returned for message.upper()
    channel,    \* Slack: channel of the event handled last
    hist,       \* Slack: per channel, the directed messages served so far
    klass,      \* the class of the bot: STATES, TAGS and the methods it defines
    warnings,   \* the warnings ChatBot.__init__ has printed
    lines,      \* chat: the lines input() has returned so far
    fed         \* chat: the messages passed to respond so far

vars == <<state, prev, pc, op, arg, message, reply, err, calls, tags, tagsUpper,
          channel, hist, klass, warnings, lines, fed>>

----------------------------------------------------------------------------
(* Bounds of the model. *)

\* a message is at most MaxParts chunks long
MaxParts == 2

\* the Slack adapter is followed for at most MaxEvents events
MaxEvents == 3

\* the conversation loop is followed for at most MaxLines lines of input
MaxLines == 4

\* a subclass of ChatBot declares at most MaxStates states
MaxStates == 2

----------------------------------------------------------------------------
(* Characters and Python's str methods. *)

UpperLetters == <<"A", "B", "C", "D", "E", "F", "G", "H", "I", "J", "K", "L",
                  "M", "N", "O", "P", "Q", "R", "S", "T", "U", "V", "W", "X",
                  "Y", "Z">>

LowerLetters == <<"a", "b", "c", "d", "e", "f", "g", "h", "i", "j", "k", "l",
                  "m", "n", "o", "p", "q", "r", "s", "t", "u", "v", "w", "x",
                  "y", "z">>

DotlessI == "dotless_i"

Range(f) == {f[i] : i \in DOMAIN f}

IndexOf(c, letters) == CHOOSE i \in DOMAIN letters : letters[i] = c

\* the lower case of every upper-case letter
LowerOf == [c \in Range(UpperLetters) |-> LowerLetters[IndexOf(c, UpperLetters)]]

\* the upper case of every lower-case letter
UpperOf == [c \in Range(LowerLetters) |-> UpperLetters[IndexOf(c, LowerLetters)]]

\* str.lower() on one character: U+0131 is lower case already
LowerChar(c) == IF c \in DOMAIN LowerOf THEN LowerOf[c] ELSE c

\* str.upper() on one character: the upper case of U+0131 is "I"
UpperChar(c) ==
    IF c \in DOMAIN UpperOf THEN UpperOf[c]
    ELSE IF c = DotlessI THEN "I" ELSE c

Lower(s) == [i \in 1..Len(s) |-> LowerChar(s[i])]

Upper(s) == [i \in 1..Len(s) |-> UpperChar(s[i])]

\* the characters the regular expression class \w matches
WordChars ==
    Range(UpperLetters) \cup Range(LowerLetters) \cup {DotlessI, "_"}
        \cup {"0", "1", "2", "3", "4", "5", "6", "7", "8", "9"}

IsWordChar(c) == c \in WordChars

\* \b at offset k of s (between s[k] and s[k+1]): exactly one side is a
\* word character, the edges of s counting as non-word
WordBoundary(s, k) ==
    LET before == k >= 1 /\ IsWordChar(s[k])
        after  == k + 1 <= Len(s) /\ IsWordChar(s[k + 1])
    IN  before # after

\* re.search(phrase, s): the search without the two \b
ReSearch_no_boundary(phrase, s) ==
    \E i \in 1..(Len(s) - Len(phrase) + 1) :
        \A k \in 1..Len(phrase) : s[i + k - 1] = phrase[k]

\* re.search(r'\b' + phrase + r'\b', s) for a phrase without regular
\* expression metacharacters: some occurrence of phrase in s has a word
\* boundary at both ends
ReSearch(phrase, s) ==
    \E i \in 1..(Len(s) - Len(phrase) + 1) :
        /\ \A k \in 1..Len(phrase) : s[i + k - 1] = phrase[k]
        /\ WordBoundary(s, i - 1)
        /\ WordBoundary(s, i + Len(phrase) - 1)

\* str.strip(), the only whitespace of the model being the space
RECURSIVE LStrip(_)
LStrip(s) == IF s # <<>> /\ Head(s) = " " THEN LStrip(Tail(s)) ELSE s

RECURSIVE RStrip(_)
RStrip(s) ==
    IF s # <<>> /\ s[Len(s)] = " " THEN RStrip(SubSeq(s, 1, Len(s) - 1)) ELSE s

Strip(s) == RStrip(LStrip(s))

\* str.split(): the maximal runs of non-whitespace characters
RECURSIVE Split(_)
Split(s) ==
    LET t == LStrip(s)
        n == IF \E i \in 1..Len(t) : t[i] = " "
             THEN (CHOOSE i \in 1..Len(t) :
                      t[i] = " " /\ \A j \in 1..(i - 1) : t[j] # " ") - 1
             ELSE Len(t)
    IN  IF t = <<>> THEN <<>>
        ELSE <<SubSeq(t, 1, n)>> \o Split(SubSeq(t, n + 1, Len(t)))

----------------------------------------------------------------------------
(* The tag table. *)

Str(s) == [kind |-> "str", val |-> s]

List(l) == [kind |-> "list", val |-> l]

\* OxyCSBot.TAGS as the dict literal evaluates: the key 'bye' is written
\* twice, it keeps the position of the first and the value of the second
OxyTAGS ==
    << [phrase |-> <<"o", "k", "a", "y">>,
        tags |-> Str("success")],
       [phrase |-> <<"b", "y", "e">>,
        tags |-> Str("bye")],
       [phrase |-> <<"h", "i">>,
        tags |-> Str("hi")],
       [phrase |-> <<"h", "e", "l", "l", "o">>,
        tags |-> Str("hi")],
       [phrase |-> <<"w", "h", "a", "t", "'", "s", " ", "u", "p">>,
        tags |-> Str("hi")],
       [phrase |-> <<"s", "e", "e", " ", "y", "a">>,
        tags |-> Str("bye")],
       [phrase |-> <<"s", "e", "e", " ", "y", "o", "u">>,
        tags |-> Str("bye")],
       [phrase |-> <<"g", "o", "o", "d", " ", "b", "y", "e">>,
        tags |-> Str("bye")],
       [phrase |-> <<"a", "l", "r", "i", "g", "h", "t", " ", "t", "h", "e", "n">>,
        tags |-> Str("bye")],
       [phrase |-> <<"n", "e", "v", "e", "r", " ", "t", "h", "o", "u", "g", "h",
                     "t", " ", "a", "b", "o", "u", "t", " ", "t", "h", "a", "t">>,
        tags |-> Str("bye")],
       [phrase |-> <<"t", "h", "a", "n", "k", "s">>,
        tags |-> Str("thanks")],
       [phrase |-> <<"t", "h", "a", "n", "k", " ", "y", "o", "u">>,
        tags |-> Str("thanks")],
       [phrase |-> <<"g", "o", "o", "d", " ", "i", "d", "e", "a">>,
        tags |-> Str("thanks")],
       [phrase |-> <<"I", " ", "d", "o", "n", "'", "t", " ", "k", "n", "o", "w">>,
        tags |-> Str("idk")],
       [phrase |-> <<"I", "'", "m", " ", "c", "o", "n", "f", "u", "s", "e", "d">>,
        tags |-> Str("idk")],
       [phrase |-> <<"W", "h", "a", "t", " ", "s", "h", "o", "u", "l", "d", " ",
                     "I", " ", "d", "o">>,
        tags |-> Str("idk")],
       [phrase |-> <<"i", "d", "k">>,
        tags |-> Str("idk")],
       [phrase |-> <<"y", "e", "s">>,
        tags |-> Str("yay")],
       [phrase |-> <<"y", "e", "p">>,
        tags |-> Str("yay")],
       [phrase |-> <<"o", "f", " ", "c", "o", "u", "r", "s", "e">>,
        tags |-> Str("yay")],
       [phrase |-> <<"y", "e", "a", "h">>,
        tags |-> Str("yay")],
       [phrase |-> <<"n", "o", "t", " ", "r", "e", "a", "l", "l", "y">>,
        tags |-> Str("no")],
       [phrase |-> <<"n", "o">>,
        tags |-> Str("no")],
       [phrase |-> <<"n", "o", "p", "e">>,
        tags |-> Str("no")] >>

\* ChatBot._check_tags: a str value becomes a one-element list
_check_tags(table) ==
    [i \in DOMAIN table |->
        [phrase |-> table[i].phrase,
         tags   |-> IF table[i].tags.kind = "str"
                    THEN List(<<table[i].tags.val>>)
                    ELSE table[i].tags]]

\* self.TAGS once the bot is constructed
TAGS == _check_tags(OxyTAGS)

\* Counter.update(iterable): one more for every element of the list
RECURSIVE CounterUpdate(_, _)
CounterUpdate(counter, elems) ==
    IF elems = <<>> THEN counter
    ELSE LET t == Head(elems)
             n == IF t \in DOMAIN counter THEN counter[t] ELSE 0
         IN  CounterUpdate(
                 [x \in DOMAIN counter \cup {t} |-> IF x = t THEN n + 1 ELSE counter[x]],
                 Tail(elems))

\* the empty Counter
EmptyCounter == [x \in {} |-> 0]

\* the loop of _get_tags over the first n entries of the table
RECURSIVE GetTagsLoop(_, _, _)
GetTagsLoop(msg, table, n) ==
    IF n = 0 THEN EmptyCounter
    ELSE LET counter == GetTagsLoop(msg, table, n - 1)
         IN  IF ReSearch(Lower(table[n].phrase), msg)
             THEN CounterUpdate(counter, table[n].tags.val)
             ELSE counter

\* _get_tags that collects the tags in a set: every tag found counts once
_get_tags_as_set(m) ==
    [t \in DOMAIN GetTagsLoop(Lower(m), TAGS, Len(TAGS)) |-> 1]

\* _get_tags that does not lower-case the message
_get_tags_no_lower(m) == GetTagsLoop(m, TAGS, Len(TAGS))

\* ChatBot._get_tags
_get_tags(m) == GetTagsLoop(Lower(m), TAGS, Len(TAGS))

\* Counter[t]: zero for a missing key
Count(counter, t) == IF t \in DOMAIN counter THEN counter[t] ELSE 0

----------------------------------------------------------------------------
(* The flagged-word predicate. *)

\* the words of emotions.txt, one per line; the file is read at run time and
\* is not among the sources, so two emotion words stand for its lines ("mad"
\* is the one of the sentence at the end of specific_word_detection.py)
emotion_word_bank == { <<"s", "a", "d">>, <<"m", "a", "d">> }

\* emotion_word_found: True when a word of the lower-cased sentence is in
\* the bank, None (falsy) otherwise
emotion_word_found(sentence) ==
    LET sentenceLower == Split(Lower(sentence))
    IN  \E i \in DOMAIN sentenceLower : sentenceLower[i] \in emotion_word_bank

----------------------------------------------------------------------------
(* The messages of the model. *)

Chunks ==
    { <<"h", "i">>,
      <<"s">>,
      <<"h", "e", "l", "l", "o">>,
      <<"g", "o", "o", "d", " ", "b", "y", "e">>,
      <<"i", " ", "d", "o", "n", "'", "t", " ", "k", "n", "o", "w">>,
      <<"y", "e", "s">>,
      <<"n", "o">>,
      <<"s", "a", "d">>,
      <<"t", "h", "a", "n", "k", "s">>,
      <<"n", "e", "v", "e", "r", " ", "t", "h", "o", "u", "g", "h", "t", " ",
        "a", "b", "o", "u", "t", " ", "t", "h", "a", "t">>,
      <<"h", "dotless_i">> }

Seps == { <<>>, <<" ">> }

\* the messages of at most n chunks, joined with or without a space
RECURSIVE MsgsOf(_)
MsgsOf(n) ==
    IF n = 0 THEN { <<>> }
    ELSE MsgsOf(n - 1) \cup Chunks \cup
         { m \o s \o c : m \in MsgsOf(n - 1) \ { <<>> }, s \in Seps, c \in Chunks }

Msgs == MsgsOf(MaxParts)

----------------------------------------------------------------------------
(* The framework ChatBot and the bot OxyCSBot. *)

\* OxyCSBot.STATES
STATES == <<"waiting", "hi", "tell_me_more", "emotion_detection", "anecdote",
            "suggestion", "feel_better_question", "feels_better">>

\* the default_state OxyCSBot.__init__ passes to ChatBot.__init__
default_state == "waiting"

\* the value of a Python expression that yields no string
None == "None"

\* the methods the class OxyCSBot defines for getattr(self, name) to find
Methods ==
    { "respond_from_waiting",
      "on_enter_emotion_detection", "respond_from_emotion_detection",
      "on_enter_hi", "respond_from_hi",
      "on_enter_tell_me_more", "respond_from_tell_me_more",
      "on_enter_anecdote", "respond_from_anecdote",
      "on_enter_suggestion", "respond_from_suggestion",
      "on_enter_feel_better_question", "respond_from_feel_better_question",
      "on_enter_feels_better", "respond_from_feels_better",
      "finish_confused", "finish_success", "finish_fail", "finish_thanks" }

\* the class OxyCSBot as its definition leaves it
OxyCSBotClass == [STATES |-> STATES, TAGS |-> OxyTAGS, methods |-> Methods]

\* the class OxyCSBot once an instance is built: _check_tags has replaced the
\* values of the class attribute TAGS
OxyCSBotBuilt == [STATES |-> STATES, TAGS |-> TAGS, methods |-> Methods]

\* random.choice over the three responses
on_enter_emotion_detection ==
    { "Oh no, I'm sorry about that:/ Why do you feel that way?",
      "I'm really sorry to hear that. What are you going to do?",
      "Sounds awful. Let it out, tell me more" }

\* random.choice(greetings) + " " + random.choice(questions)
on_enter_hi ==
    { g \o " " \o q :
        g \in { "Hello.", "What's up?", "Yo." },
        q \in { "How you doing?", "How are you?", "Are you alright?",
                "How's it going?" } }

on_enter_tell_me_more ==
    { "What happened?", "Can you tell me more about it?", "Why?" }

on_enter_anecdote ==
    { "I'm sorry:/ I remember one time when my girlfriend was mad at me, I bought her chocolate. "
      \o "I also told her she means so much to me, and that I know I messed up. I gave her time and space,"
      \o " and waited until she came back around. We're still together to this day. I just rambled..."
      \o "but does this help? " }

\* random.choice of a suggestion + random.choice of a further one
on_enter_suggestion ==
    { a \o b :
        a \in { "Um. I have some idea if you need more help.",
                "Why not talk to her first? " },
        b \in { "It's not as hard as you think.",
                "Tell her how you feel. It's better to communicate than thinking by yourself." } }

on_enter_feel_better_question == { "Do you feel better now?" }

on_enter_feels_better == { "Good to hear! Need anything else?" }

finish_confused == "Sorry, what did you say?"

finish_success ==
    "Awesome:) Glad we could talk this out! I gotta go to some stuff now, later!"

finish_fail == "Sorry man, I don't know what to say."

finish_thanks == "You're always welcome! But I gotta go now, see ya."

\* the strings a call of the producer `name` (an on_enter_* or finish_*
\* method of Methods) may return
Produce(name) ==
    CASE name = "on_enter_emotion_detection"    -> on_enter_emotion_detection
      [] name = "on_enter_hi"                   -> on_enter_hi
      [] name = "on_enter_tell_me_more"         -> on_enter_tell_me_more
      [] name = "on_enter_anecdote"             -> on_enter_anecdote
      [] name = "on_enter_suggestion"           -> on_enter_suggestion
      [] name = "on_enter_feel_better_question" -> on_enter_feel_better_question
      [] name = "on_enter_feels_better"         -> on_enter_feels_better
      [] name = "finish_confused"               -> { finish_confused }
      [] name = "finish_success"                -> { finish_success }
      [] name = "finish_fail"                   -> { finish_fail }
      [] name = "finish_thanks"                 -> { finish_thanks }

\* The outcome of an operation on the bot: the state it leaves in self.state,
\* the value it returns or the exception it raises, and the go_to_state and
\* finish calls made on the way.
PrimCall(prim, a, ret) == [prim |-> prim, arg |-> a, ret |-> ret]

Returns(st, r, cs) == [state |-> st, reply |-> r, err |-> "none", calls |-> cs]

Raises(st, e, cs) == [state |-> st, reply |-> None, err |-> e, calls |-> cs]

\* go_to_state without the assertion on the default state
go_to_state_no_default_assert(cur, s) ==
    IF s \notin Range(STATES)
    THEN { Raises(cur, "AssertionError", <<PrimCall("go_to_state", s, None)>>) }
    ELSE IF ("on_enter_" \o s) \notin Methods
    THEN { Raises(cur, "AttributeError", <<PrimCall("go_to_state", s, None)>>) }
    ELSE { Returns(s, response, <<PrimCall("go_to_state", s, response)>>) :
             response \in Produce("on_enter_" \o s) }

\* go_to_state that returns the response and forgets self.state = state
go_to_state_no_commit(cur, s) ==
    IF s \notin Range(STATES) \/ s = default_state
    THEN { Raises(cur, "AssertionError", <<PrimCall("go_to_state", s, None)>>) }
    ELSE IF ("on_enter_" \o s) \notin Methods
    THEN { Raises(cur, "AttributeError", <<PrimCall("go_to_state", s, None)>>) }
    ELSE { Returns(cur, response, <<PrimCall("go_to_state", s, response)>>) :
             response \in Produce("on_enter_" \o s) }

\* ChatBot.go_to_state called with self.state = cur
go_to_state(cur, s) ==
    IF s \notin Range(STATES)
    THEN { Raises(cur, "AssertionError", <<PrimCall("go_to_state", s, None)>>) }
    ELSE IF s = default_state
    THEN { Raises(cur, "AssertionError", <<PrimCall("go_to_state", s, None)>>) }
    ELSE IF ("on_enter_" \o s) \notin Methods
    THEN { Raises(cur, "AttributeError", <<PrimCall("go_to_state", s, None)>>) }
    ELSE { Returns(s, response, <<PrimCall("go_to_state", s, response)>>) :
             response \in Produce("on_enter_" \o s) }

\* finish that returns the response and forgets to reset self.state
finish_no_reset(cur, manner) ==
    IF ("finish_" \o manner) \notin Methods
    THEN { Raises(cur, "AttributeError", <<PrimCall("finish", manner, None)>>) }
    ELSE { Returns(cur, response, <<PrimCall("finish", manner, response)>>) :
             response \in Produce("finish_" \o manner) }

\* finish that falls back to finish_confused for a manner it does not know
finish_with_fallback(cur, manner) ==
    IF ("finish_" \o manner) \notin Methods
    THEN { Returns(default_state, finish_confused, <<PrimCall("finish", manner, finish_confused)>>) }
    ELSE { Returns(default_state, response, <<PrimCall("finish", manner, response)>>) :
             response \in Produce("finish_" \o manner) }

\* ChatBot.finish called with self.state = cur
finish(cur, manner) ==
    IF ("finish_" \o manner) \notin Methods
    THEN { Raises(cur, "AttributeError", <<PrimCall("finish", manner, None)>>) }
    ELSE { Returns(default_state, response, <<PrimCall("finish", manner, response)>>) :
             response \in Produce("finish_" \o manner) }

\* the length from which respond_from_waiting does not greet back
GreetingMaxLen == 20

\* respond_from_waiting that looks at the greeting before the flagged word
respond_from_waiting_greeting_first(cur, msg, tgs) ==
    IF "hi" \in DOMAIN tgs
    THEN IF Len(msg) < GreetingMaxLen
         THEN go_to_state(cur, "hi")
         ELSE IF emotion_word_found(msg)
              THEN go_to_state(cur, "emotion_detection")
              ELSE { Returns(cur, None, <<>>) }
    ELSE IF emotion_word_found(msg)
    THEN go_to_state(cur, "emotion_detection")
    ELSE IF "bye" \in DOMAIN tgs
    THEN finish(cur, "success")
    ELSE { Returns(cur, finish_confused, <<>>) }

\* respond_from_waiting whose last branch answers with finish_fail
respond_from_waiting_fail(cur, msg, tgs) ==
    IF emotion_word_found(msg)
    THEN go_to_state(cur, "emotion_detection")
    ELSE IF "hi" \in DOMAIN tgs
    THEN IF Len(msg) < GreetingMaxLen
         THEN go_to_state(cur, "hi")
         ELSE IF emotion_word_found(msg)
              THEN go_to_state(cur, "emotion_detection")
              ELSE { Returns(cur, None, <<>>) }
    ELSE IF "bye" \in DOMAIN tgs
    THEN finish(cur, "success")
    ELSE { Returns(cur, finish_fail, <<>>) }

respond_from_waiting(cur, msg, tgs) ==
    IF emotion_word_found(msg)
    THEN go_to_state(cur, "emotion_detection")
    ELSE IF "hi" \in DOMAIN tgs
    THEN IF Len(msg) < GreetingMaxLen
         THEN go_to_state(cur, "hi")
         ELSE IF emotion_word_found(msg)
              THEN go_to_state(cur, "emotion_detection")
              ELSE { Returns(cur, None, <<>>) }
    ELSE IF "bye" \in DOMAIN tgs
    THEN finish(cur, "success")
    ELSE { Returns(cur, finish_confused, <<>>) }

\* respond_from_emotion_detection that looks at the flagged word first
respond_from_emotion_detection_flag_first(cur, msg, tgs) ==
    IF emotion_word_found(msg)
    THEN go_to_state(cur, "emotion_detection")
    ELSE IF "idk" \in DOMAIN tgs
    THEN go_to_state(cur, "anecdote")
    ELSE go_to_state(cur, "tell_me_more")

respond_from_emotion_detection(cur, msg, tgs) ==
    IF "idk" \in DOMAIN tgs
    THEN go_to_state(cur, "anecdote")
    ELSE IF emotion_word_found(msg)
    THEN go_to_state(cur, "emotion_detection")
    ELSE go_to_state(cur, "tell_me_more")

respond_from_hi(cur, msg, tgs) == go_to_state(cur, "tell_me_more")

respond_from_tell_me_more(cur, msg, tgs) == go_to_state(cur, "emotion_detection")

respond_from_anecdote(cur, msg, tgs) ==
    IF "yay" \in DOMAIN tgs
    THEN go_to_state(cur, "feels_better")
    ELSE IF "no" \in DOMAIN tgs
    THEN go_to_state(cur, "suggestion")
    ELSE IF "thanks" \in DOMAIN tgs
    THEN finish(cur, "thanks")
    ELSE go_to_state(cur, "tell_me_more")

respond_from_suggestion(cur, msg, tgs) ==
    IF emotion_word_found(msg)
    THEN go_to_state(cur, "emotion_detection")
    ELSE IF "thanks" \in DOMAIN tgs
    THEN finish(cur, "thanks")
    ELSE go_to_state(cur, "feel_better_question")

respond_from_feel_better_question(cur, msg, tgs) ==
    IF "yay" \in DOMAIN tgs
    THEN go_to_state(cur, "feels_better")
    ELSE IF "no" \in DOMAIN tgs
    THEN go_to_state(cur, "suggestion")
    ELSE IF "thanks" \in DOMAIN tgs
    THEN finish(cur, "thanks")
    ELSE go_to_state(cur, "tell_me_more")

\* respond_from_feels_better that looks at the tag 'yay' first
respond_from_feels_better_yay_first(cur, msg, tgs) ==
    IF "yay" \in DOMAIN tgs
    THEN go_to_state(cur, "tell_me_more")
    ELSE IF "no" \in DOMAIN tgs
    THEN finish(cur, "success")
    ELSE IF "thanks" \in DOMAIN tgs
    THEN finish(cur, "thanks")
    ELSE go_to_state(cur, "waiting")

\* respond_from_feels_better whose last branch assigns self.state itself
respond_from_feels_better_assign(cur, msg, tgs) ==
    IF "no" \in DOMAIN tgs
    THEN finish(cur, "success")
    ELSE IF "yay" \in DOMAIN tgs
    THEN go_to_state(cur, "tell_me_more")
    ELSE IF "thanks" \in DOMAIN tgs
    THEN finish(cur, "thanks")
    ELSE { Returns(default_state, finish_confused, <<>>) }

respond_from_feels_better(cur, msg, tgs) ==
    IF "no" \in DOMAIN tgs
    THEN finish(cur, "success")
    ELSE IF "yay" \in DOMAIN tgs
    THEN go_to_state(cur, "tell_me_more")
    ELSE IF "thanks" \in DOMAIN tgs
    THEN finish(cur, "thanks")
    ELSE go_to_state(cur, "waiting")

\* ChatBot.respond called with self.state = cur
respond(cur, msg) ==
    LET name == "respond_from_" \o cur
        tgs  == _get_tags(msg)
    IN  IF name \notin Methods
        THEN { Raises(cur, "AttributeError", <<>>) }
        ELSE CASE cur = "waiting"              -> respond_from_waiting(cur, msg, tgs)
               [] cur = "emotion_detection"    -> respond_from_emotion_detection(cur, msg, tgs)
               [] cur = "hi"                   -> respond_from_hi(cur, msg, tgs)
               [] cur = "tell_me_more"         -> respond_from_tell_me_more(cur, msg, tgs)
               [] cur = "anecdote"             -> respond_from_anecdote(cur, msg, tgs)
               [] cur = "suggestion"           -> respond_from_suggestion(cur, msg, tgs)
               [] cur = "feel_better_question" -> respond_from_feel_better_question(cur, msg, tgs)
               [] cur = "feels_better"         -> respond_from_feels_better(cur, msg, tgs)

----------------------------------------------------------------------------
(* A client of one bot instance: it calls the public methods of the bot,   *)
(* one call at a time, and looks at what each returned or raised.          *)

\* states a caller may name although STATES does not declare them
UndeclaredStates == { "confirm_delete", "office_hours" }

\* the manners a caller passes to finish: those OxyCSBot implements, and one
\* it does not
Manners == { "confused", "success", "fail", "thanks", "giveup" }

Producers == { m \in Methods : \E s \in Range(STATES) \cup Manners :
                                  m = "on_enter_" \o s \/ m = "finish_" \o s }

\* ChatBot.__init__ has run: self.state = self.default_state
Init ==
    /\ state = default_state
    /\ prev = default_state
    /\ pc = "idle"
    /\ op = ""
    /\ arg = ""
    /\ message = <<>>
    /\ reply = None
    /\ err = "none"
    /\ calls = <<>>
    /\ tags = EmptyCounter
    /\ tagsUpper = EmptyCounter
    /\ channel = ""
    /\ hist = <<>>
    /\ klass = OxyCSBotBuilt
    /\ warnings = <<>>
    /\ lines = <<>>
    /\ fed = <<>>

\* the bot is left as the outcome o says
Outcome(o) ==
    /\ prev' = state
    /\ state' = o.state
    /\ reply' = o.reply
    /\ err' = o.err
    /\ calls' = o.calls

\* bot.respond(m)
Respond ==
    /\ pc = "idle"
    /\ \E m \in Msgs :
         /\ message' = m
         /\ tags' = _get_tags(m)
         /\ \E o \in respond(state, m) : Outcome(o)
    /\ op' = "respond"
    /\ arg' = ""
    /\ pc' = "returned"
    /\ UNCHANGED <<klass, warnings, lines, fed, tagsUpper, channel, hist>>

\* bot.go_to_state(s)
GoToState ==
    /\ pc = "idle"
    /\ \E s \in Range(STATES) \cup UndeclaredStates :
         /\ arg' = s
         /\ \E o \in go_to_state(state, s) : Outcome(o)
    /\ op' = "go_to_state"
    /\ pc' = "returned"
    /\ UNCHANGED <<klass, warnings, lines, fed, message, tags, tagsUpper, channel, hist>>

\* bot.finish(manner)
Finish ==
    /\ pc = "idle"
    /\ \E manner \in Manners :
         /\ arg' = manner
         /\ \E o \in finish(state, manner) : Outcome(o)
    /\ op' = "finish"
    /\ pc' = "returned"
    /\ UNCHANGED <<klass, warnings, lines, fed, message, tags, tagsUpper, channel, hist>>

\* bot._get_tags(m)
GetTags ==
    /\ pc = "idle"
    /\ \E m \in Msgs :
         /\ message' = m
         /\ tags' = _get_tags(m)
    /\ Outcome(Returns(state, None, <<>>))
    /\ op' = "_get_tags"
    /\ arg' = ""
    /\ pc' = "returned"
    /\ UNCHANGED <<klass, warnings, lines, fed, tagsUpper, channel, hist>>

\* bot.on_enter_<s>() or bot.finish_<manner>(), called directly
CallProducer ==
    /\ pc = "idle"
    /\ \E name \in Producers :
         /\ arg' = name
         /\ \E r \in Produce(name) : Outcome(Returns(state, r, <<>>))
    /\ op' = "producer"
    /\ pc' = "returned"
    /\ UNCHANGED <<klass, warnings, lines, fed, message, tags, tagsUpper, channel, hist>>

\* the client is done with the result of the call
Return ==
    /\ pc = "returned"
    /\ pc' = "idle"
    /\ prev' = state
    /\ op' = ""
    /\ arg' = ""
    /\ message' = <<>>
    /\ reply' = None
    /\ err' = "none"
    /\ calls' = <<>>
    /\ tags' = EmptyCounter
    /\ UNCHANGED <<klass, warnings, lines, fed, state, tagsUpper, channel, hist>>

Next == Respond \/ GoToState \/ Finish \/ GetTags \/ CallProducer \/ Return

Spec == Init /\ [][Next]_vars

----------------------------------------------------------------------------
(* The conversation loop ChatBot.chat on standard input.                   *)

\* the sentinels of the loop
ExitWords == { <<"e", "x", "i", "t">>, <<"q", "u", "i", "t">> }

\* the lines a user types
ChatLines ==
    Chunks \cup { <<>>,
                  <<"e", "x", "i", "t">>, <<"q", "u", "i", "t">>,
                  <<"E", "X", "I", "T">>, <<"Q", "u", "i", "t">> }

\* OxyCSBot().chat() is entered
InitChat ==
    /\ state = default_state
    /\ prev = default_state
    /\ pc = "chat_input"
    /\ op = ""
    /\ arg = ""
    /\ message = <<>>
    /\ reply = None
    /\ err = "none"
    /\ calls = <<>>
    /\ tags = EmptyCounter
    /\ tagsUpper = EmptyCounter
    /\ channel = ""
    /\ hist = <<>>
    /\ klass = OxyCSBotBuilt
    /\ warnings = <<>>
    /\ lines = <<>>
    /\ fed = <<>>

\* message = input('> ') returns a line, and the while condition is tested
ChatInput ==
    /\ pc = "chat_input"
    /\ Len(lines) < MaxLines
    /\ \E line \in ChatLines :
         /\ message' = line
         /\ lines' = Append(lines, line)
         /\ pc' = IF Lower(line) \in ExitWords THEN "chat_returned" ELSE "chat_respond"
    /\ op' = "input"
    /\ prev' = state
    /\ reply' = None
    /\ err' = "none"
    /\ calls' = <<>>
    /\ tags' = EmptyCounter
    /\ UNCHANGED <<klass, warnings, fed, state, arg, tagsUpper, channel, hist>>

\* input('> ') raises EOFError: the handler prints a line and calls exit()
ChatEndOfInput ==
    /\ pc = "chat_input"
    /\ pc' = "chat_exited"
    /\ op' = "input"
    /\ err' = "EOFError"
    /\ UNCHANGED <<klass, warnings, lines, fed, state, prev, arg, message, reply, calls, tags, tagsUpper, channel, hist>>

\* KeyboardInterrupt inside the try block: the handler prints a line and
\* calls exit()
ChatInterrupt ==
    /\ pc \in { "chat_input", "chat_respond" }
    /\ pc' = "chat_exited"
    /\ err' = "KeyboardInterrupt"
    /\ UNCHANGED <<klass, warnings, lines, fed, state, prev, op, arg, message, reply, calls, tags, tagsUpper, channel, hist>>

\* print(f'...: {self.respond(message)}'): an exception of respond other
\* than EOFError and KeyboardInterrupt is not handled and leaves chat
ChatRespond ==
    /\ pc = "chat_respond"
    /\ tags' = _get_tags(message)
    /\ \E o \in respond(state, message) :
         /\ Outcome(o)
         /\ pc' = IF o.err = "none" THEN "chat_input" ELSE "chat_crashed"
    /\ op' = "respond"
    /\ fed' = Append(fed, message)
    /\ UNCHANGED <<klass, warnings, lines, arg, message, tagsUpper, channel, hist>>

NextChat == ChatInput \/ ChatEndOfInput \/ ChatInterrupt \/ ChatRespond

SpecChat == InitChat /\ [][NextChat]_vars

----------------------------------------------------------------------------
(* The Slack adapter: run(OxyCSBot).                                       *)

Channels == { "C1", "C2" }

\* the user_id of the bot, from auth.test
bot_id == <<"B">>

\* a text value that is Python's None
NoText == <<None>>

\* text.split(' ', maxsplit=1) of a text that holds a space
SplitOnce(text) ==
    LET i == CHOOSE k \in 1..Len(text) :
                 text[k] = " " /\ \A j \in 1..(k - 1) : text[j] # " "
    IN  <<SubSeq(text, 1, i - 1), SubSeq(text, i + 1, Len(text))>>

get_at_message(event, id) ==
    IF event.type # "message" \/ event.subtype
    THEN NoText
    ELSE IF ~ \E k \in 1..Len(event.text) : event.text[k] = " "
    THEN NoText
    ELSE IF SplitOnce(event.text)[1] # (<<"<", "@">> \o id \o <<">">>)
    THEN NoText
    ELSE Strip(SplitOnce(event.text)[2])

\* `if message:` is false for None and for the empty string
Truthy(text) == text # NoText /\ text # <<>>

\* what users write after the mention
SlackBodies ==
    { <<"s", "a", "d">>,
      <<"h", "i">>,
      <<"i", " ", "d", "o", "n", "'", "t", " ", "k", "n", "o", "w">>,
      <<"y", "e", "s">>,
      <<" ", "s", " ">>,
      <<>> }

\* the events rtm_read delivers
SlackEvents ==
    { [type |-> "message", subtype |-> FALSE, channel |-> c,
       text |-> <<"<", "@">> \o who \o <<">">> \o <<" ">> \o body] :
        c \in Channels, who \in { bot_id, <<"U">> }, body \in SlackBodies }
    \cup
    { [type |-> ty, subtype |-> sub, channel |-> c, text |-> <<"<", "@", "B", ">", " ", "h", "i">>] :
        c \in Channels,
        ty \in { "message", "user_typing" },
        sub \in BOOLEAN }
    \cup
    { [type |-> "message", subtype |-> FALSE, channel |-> c, text |-> <<"h", "i">>] :
        c \in Channels }

\* the directed messages served so far, over all channels
RECURSIVE Served(_, _)
Served(h, cs) ==
    IF cs = {} THEN 0
    ELSE LET c == CHOOSE x \in cs : TRUE IN Len(h[c]) + Served(h, cs \ {c})

\* run() has connected and built its bot: bot = bot_class()
InitSlack ==
    /\ state = default_state
    /\ prev = default_state
    /\ pc = "slack_loop"
    /\ op = ""
    /\ arg = ""
    /\ message = <<>>
    /\ reply = None
    /\ err = "none"
    /\ calls = <<>>
    /\ tags = EmptyCounter
    /\ tagsUpper = EmptyCounter
    /\ channel = ""
    /\ hist = [c \in Channels |-> <<>>]
    /\ klass = OxyCSBotBuilt
    /\ warnings = <<>>
    /\ lines = <<>>
    /\ fed = <<>>

\* one event of rtm_read that is no @-message to the bot
SlackIgnore ==
    /\ pc = "slack_loop"
    /\ \E event \in SlackEvents :
         /\ ~ Truthy(get_at_message(event, bot_id))
         /\ channel' = event.channel
    /\ op' = "ignored"
    /\ prev' = state
    /\ message' = <<>>
    /\ reply' = None
    /\ err' = "none"
    /\ calls' = <<>>
    /\ tags' = EmptyCounter
    /\ UNCHANGED <<klass, warnings, lines, fed, state, pc, arg, tagsUpper, hist>>

\* one event of rtm_read that is an @-message to the bot: the one bot of
\* run() answers it and the answer is posted to the channel of the event; an
\* exception of respond leaves run()
SlackServe ==
    /\ pc = "slack_loop"
    /\ Served(hist, Channels) < MaxEvents
    /\ \E event \in SlackEvents :
         LET m == get_at_message(event, bot_id) IN
         /\ Truthy(m)
         /\ channel' = event.channel
         /\ message' = m
         /\ tags' = _get_tags(m)
         /\ hist' = [hist EXCEPT ![event.channel] = Append(@, m)]
         /\ \E o \in respond(state, m) :
              /\ Outcome(o)
              /\ pc' = IF o.err = "none" THEN "slack_loop" ELSE "slack_crashed"
    /\ op' = "respond"
    /\ UNCHANGED <<klass, warnings, lines, fed, arg, tagsUpper>>

NextSlack == SlackIgnore \/ SlackServe

SpecSlack == InitSlack /\ [][NextSlack]_vars

----------------------------------------------------------------------------
(* Tag extraction as a pure function of the message. *)

\* every phrase of the table alone, as written and in lower case, and inside
\* a larger word
PhraseMsgs ==
    UNION { { OxyTAGS[i].phrase,
              Lower(OxyTAGS[i].phrase),
              <<"x">> \o OxyTAGS[i].phrase,
              OxyTAGS[i].phrase \o <<"x">>,
              <<"x">> \o OxyTAGS[i].phrase \o <<"x">> } : i \in DOMAIN OxyTAGS }

InitTags ==
    /\ state = "waiting"
    /\ prev = "waiting"
    /\ pc = "tags_input"
    /\ op = ""
    /\ arg = ""
    /\ message \in Msgs \cup PhraseMsgs
    /\ reply = "None"
    /\ err = "none"
    /\ calls = <<>>
    /\ tags = EmptyCounter
    /\ tagsUpper = EmptyCounter
    /\ channel = ""
    /\ hist = <<>>
    /\ klass = OxyCSBotBuilt
    /\ warnings = <<>>
    /\ lines = <<>>
    /\ fed = <<>>

GetTagsOfMessage ==
    /\ pc = "tags_input"
    /\ tags' = _get_tags(message)
    /\ pc' = "tags_done"
    /\ op' = "_get_tags"
    /\ UNCHANGED <<klass, warnings, lines, fed, state, prev, arg, message, reply, err, calls, tagsUpper, channel, hist>>

GetTagsOfUpper ==
    /\ pc = "tags_done"
    /\ tagsUpper' = _get_tags(Upper(message))
    /\ pc' = "tags_both"
    /\ UNCHANGED <<klass, warnings, lines, fed, state, prev, op, arg, message, reply, err, calls, tags, channel, hist>>

NextTags == GetTagsOfMessage \/ GetTagsOfUpper

SpecTags == InitTags /\ [][NextTags]_vars

----------------------------------------------------------------------------
(* Properties of the primitives go_to_state and finish, checked on the     *)
(* client of one bot instance (Spec).                                      *)

\* the operation run last has returned or raised
Done == pc = "returned"

Implemented(manner) == ("finish_" \o manner) \in Methods

\* the text finish_<manner> returns
FinishText(manner) ==
    CASE manner = "confused" -> "Sorry, what did you say?"
      [] manner = "success"  ->
           "Awesome:) Glad we could talk this out! I gotta go to some stuff now, later!"
      [] manner = "fail"     -> "Sorry man, I don't know what to say."
      [] manner = "thanks"   -> "You're always welcome! But I gotta go now, see ya."

\* the candidate responses declared for entering s
OnEnterResponses(s) ==
    CASE s = "emotion_detection"    -> on_enter_emotion_detection
      [] s = "hi"                   -> on_enter_hi
      [] s = "tell_me_more"         -> on_enter_tell_me_more
      [] s = "anecdote"             -> on_enter_anecdote
      [] s = "suggestion"           -> on_enter_suggestion
      [] s = "feel_better_question" -> on_enter_feel_better_question
      [] s = "feels_better"         -> on_enter_feels_better
      [] OTHER                      -> {}

\* C1: whenever respond(message) returns, the value it returns is the reply
\* produced by exactly one call of go_to_state or finish made by the handler
\* of the current state; it is never None and never a text that came from
\* neither primitive.
C1_RespondReturnsPrimitiveReply ==
    (Done /\ op = "respond" /\ err = "none")
        => /\ Len(calls) = 1
           /\ calls[1].prim \in { "go_to_state", "finish" }
           /\ reply # None
           /\ reply = calls[1].ret

\* C2: respond(message) never raises, from any reachable state and for any
\* message: no handler calls go_to_state with the default state or with an
\* undeclared state, and none calls finish with a manner that has no finish_*
\* method.
C2_RespondIsTotal ==
    (Done /\ op = "respond")
        => /\ err = "none"
           /\ \A i \in DOMAIN calls :
                /\ calls[i].prim = "go_to_state"
                     => calls[i].arg \in Range(STATES) \ { default_state }
                /\ calls[i].prim = "finish" => Implemented(calls[i].arg)

\* C3: go_to_state(s) fails on its assertion when s is the default state and
\* when s is not in STATES, whatever the current state is; nothing is
\* returned.
C3_GoToStateRejectsDefaultAndUndeclared ==
    (Done /\ op = "go_to_state"
          /\ (arg = default_state \/ arg \notin Range(STATES)))
        => err = "AssertionError" /\ reply = None

\* C3 witness: go_to_state(default state) has failed in a non-default state.
C3_Witness ==
    /\ Done /\ op = "go_to_state" /\ arg = default_state
    /\ prev = "feels_better" /\ err # "none"

\* C4: after finish(manner) for an implemented manner, called by a client or
\* by a handler, in any state: the call returns, the current state is the
\* default state and the reply is the text of finish_<manner>.
C4_FinishResetsToDefault ==
    \A i \in DOMAIN calls :
        (Done /\ calls[i].prim = "finish" /\ Implemented(calls[i].arg))
            => /\ err = "none"
               /\ state = default_state
               /\ reply = FinishText(calls[i].arg)

\* C4 witness: finish('fail') has returned after being called in the state
\* 'anecdote'.
C4_Witness ==
    /\ Done /\ op = "finish" /\ arg = "fail" /\ prev = "anecdote"
    /\ err = "none" /\ state = default_state

\* C5: after go_to_state(s) has returned, called by a client or by a handler:
\* s is a declared non-default state, the current state is s and the reply is
\* one of the candidate responses of on_enter_<s>.
C5_GoToStateEntersState ==
    \A i \in DOMAIN calls :
        (Done /\ calls[i].prim = "go_to_state" /\ err = "none")
            => /\ calls[i].arg \in Range(STATES) \ { default_state }
               /\ state = calls[i].arg
               /\ reply \in OnEnterResponses(calls[i].arg)

\* C5 witness: go_to_state('suggestion') has returned after being called in
\* the state 'hi'.
C5_Witness ==
    /\ Done /\ op = "go_to_state" /\ arg = "suggestion" /\ prev = "hi"
    /\ err = "none" /\ state = "suggestion"

\* C6: the current state is the default state at construction, and a step
\* changes it only through a go_to_state call that returned (to the
\* non-default state it names) or a finish call that returned (to the default
\* state): a respond whose handler calls neither, _get_tags, and the on_enter_*
\* and finish_* producers leave it as it is.
C6_StateChangesOnlyInPrimitives ==
    /\ state = default_state
    /\ [][ state' # state =>
             \E i \in DOMAIN calls' :
                /\ calls'[i].ret # None
                /\ \/ /\ calls'[i].prim = "go_to_state"
                      /\ calls'[i].arg # default_state
                      /\ state' = calls'[i].arg
                   \/ /\ calls'[i].prim = "finish"
                      /\ state' = default_state ]_vars

\* C6 witness: respond has returned a text without a go_to_state or finish
\* call, and the state is the one before.
C6_Witness ==
    /\ Done /\ op = "respond" /\ err = "none" /\ calls = <<>>
    /\ reply # None /\ state = prev

----------------------------------------------------------------------------
(* The conversation loop (SpecChat) and the Slack adapter (SpecSlack).     *)

\* C7: a transition error raised by respond inside chat() does not end the
\* loop: the loop goes on to read the next line with the current state back
\* at the default state.
C7_ChatSurvivesTransitionError ==
    (op = "respond" /\ err \in { "AssertionError", "AttributeError" })
        => pc = "chat_input" /\ state = default_state

\* the state a bot of its own is in after the messages h
RECURSIVE StateAfter(_)
StateAfter(h) ==
    IF h = <<>> THEN default_state
    ELSE (CHOOSE o \in respond(StateAfter(SubSeq(h, 1, Len(h) - 1)), h[Len(h)]) : TRUE).state

\* C8: the state a directed message of a channel is answered from is the
\* state the earlier directed messages of that same channel lead to; messages
\* of another channel do not change it.
C8_ChannelsAreIndependent ==
    (op = "respond" /\ channel \in Channels)
        => prev = StateAfter(SubSeq(hist[channel], 1, Len(hist[channel]) - 1))

----------------------------------------------------------------------------
(* Tag extraction (SpecTags).                                              *)

TagNames == { "success", "bye", "hi", "thanks", "idk", "yay", "no" }

\* entry i of the table as written maps its phrase to tag t
MapsTo(i, t) ==
    \/ OxyTAGS[i].tags = Str(t)
    \/ OxyTAGS[i].tags.kind = "list" /\ t \in Range(OxyTAGS[i].tags.val)

\* p occurs in m, character for character, with no word character next to
\* the occurrence
OccursWhole(p, m) ==
    \E i \in 1..(Len(m) - Len(p) + 1) :
        /\ \A k \in 1..Len(p) : m[i + k - 1] = p[k]
        /\ i = 1 \/ ~ IsWordChar(m[i - 1])
        /\ i + Len(p) - 1 = Len(m) \/ ~ IsWordChar(m[i + Len(p)])

C10_UpperCaseGivesSameTags ==
    pc = "tags_both" => tags = tagsUpper

\* C10 amended: _get_tags(m) = _get_tags(upper(m)) for every message m with
\* lower(upper(m)) = lower(m), and a phrase key written with upper-case
\* letters matches a lower-case occurrence of it.
C10_UpperCaseGivesSameTagsWhenCaseRoundTrips ==
    pc = "tags_both"
        => /\ Lower(Upper(message)) = Lower(message) => tags = tagsUpper
           /\ \A i \in DOMAIN OxyTAGS :
                OccursWhole(Lower(OxyTAGS[i].phrase), message)
                    => \A t \in TagNames : MapsTo(i, t) => Count(tags, t) >= 1

\* C10 witness: "i don't know" carries the tag of the key "I don't know", and
\* so does its upper case.
C10_Witness ==
    /\ pc = "tags_both"
    /\ message = <<"i", " ", "d", "o", "n", "'", "t", " ", "k", "n", "o", "w">>
    /\ Count(tags, "idk") = 1
    /\ tagsUpper = tags

----------------------------------------------------------------------------
(* Whole-word matching of _get_tags (SpecTags).                            *)

\* p occurs in m at offset i, case ignored
OccursAt(p, m, i) ==
    /\ i + Len(p) - 1 <= Len(m)
    /\ \A k \in 1..Len(p) : LowerChar(m[i + k - 1]) = LowerChar(p[k])

\* p occurs in m, and every occurrence has a word character right before or
\* right after it: p is only part of larger words
OnlyInsideWords(p, m) ==
    /\ \E i \in 1..Len(m) : OccursAt(p, m, i)
    /\ \A i \in 1..Len(m) :
         OccursAt(p, m, i)
             => \/ i > 1 /\ IsWordChar(m[i - 1])
                \/ i + Len(p) <= Len(m) /\ IsWordChar(m[i + Len(p)])

\* C11: for every phrase p of the table, a message that is p alone carries
\* every tag of p, and in a message where p occurs only inside larger words p
\* adds nothing: the count of each of its tags is the number of the other
\* phrases of that tag that occur as whole phrases.
C11_WholeWordsOnly ==
    pc \in { "tags_done", "tags_both" }
        => \A i \in DOMAIN OxyTAGS : \A t \in TagNames :
             MapsTo(i, t)
                 => /\ Lower(message) = Lower(OxyTAGS[i].phrase)
                         => Count(tags, t) >= 1
                    /\ OnlyInsideWords(OxyTAGS[i].phrase, message)
                         => Count(tags, t) =
                              Cardinality({ j \in DOMAIN OxyTAGS \ { i } :
                                  /\ MapsTo(j, t)
                                  /\ OccursWhole(Lower(OxyTAGS[j].phrase), Lower(message)) })

\* C11 witness: "his" holds 'hi' only inside a larger word and carries no tag.
C11_Witness ==
    /\ pc = "tags_done"
    /\ message = <<"h", "i", "s">>
    /\ tags = EmptyCounter

----------------------------------------------------------------------------
(* The transitions of OxyCSBot (Spec).                                     *)

\* some whitespace-delimited word of the message, case ignored, is a word of
\* the flagged-word list
FlaggedWordIn(m) ==
    \E w \in emotion_word_bank : \E i \in 1..Len(m) :
        /\ OccursAt(w, m, i)
        /\ i = 1 \/ m[i - 1] = " "
        /\ i + Len(w) - 1 = Len(m) \/ m[i + Len(w)] = " "

\* respond(message) has been called in state s
RespondedFrom(s) == Done /\ op = "respond" /\ prev = s

\* C15: finish(manner) for a manner without a finish_<manner> method fails,
\* in every current state: the attribute lookup raises and nothing is
\* returned.
C15_FinishUnknownMannerFails ==
    (Done /\ op = "finish" /\ ("finish_" \o arg) \notin Methods)
        => err = "AttributeError" /\ reply = None

\* C15 witness: finish('giveup') has failed in the state 'anecdote'.
C15_Witness ==
    /\ Done /\ op = "finish" /\ arg = "giveup" /\ prev = "anecdote"
    /\ err # "none"

\* C16: from 'waiting', a message with a flagged emotion word leads to
\* 'emotion_detection' with one of the three responses of
\* on_enter_emotion_detection, whatever its tags and its length.
C16_FlaggedWordFromWaiting ==
    (RespondedFrom("waiting") /\ FlaggedWordIn(message))
        => /\ err = "none"
           /\ state = "emotion_detection"
           /\ reply \in { "Oh no, I'm sorry about that:/ Why do you feel that way?",
                          "I'm really sorry to hear that. What are you going to do?",
                          "Sounds awful. Let it out, tell me more" }

\* C16 witness: "never thought about that sad", 28 characters long and
\* carrying the tag 'bye', has led from 'waiting' to 'emotion_detection'.
C16_Witness ==
    /\ RespondedFrom("waiting")
    /\ FlaggedWordIn(message)
    /\ "bye" \in DOMAIN tags
    /\ Len(message) >= GreetingMaxLen
    /\ state = "emotion_detection"

\* C17: from 'emotion_detection', a message with the tag 'idk' leads to
\* 'anecdote' with the anecdote as reply, flagged word or not; from
\* 'anecdote', a message with the tag 'yay' leads to 'feels_better' with the
\* reply "Good to hear! Need anything else?", whatever other tags it has.
C17_IdkThenYay ==
    /\ (RespondedFrom("emotion_detection") /\ "idk" \in DOMAIN tags)
         => /\ err = "none"
            /\ state = "anecdote"
            /\ reply \in on_enter_anecdote
    /\ (RespondedFrom("anecdote") /\ "yay" \in DOMAIN tags)
         => /\ err = "none"
            /\ state = "feels_better"
            /\ reply = "Good to hear! Need anything else?"

\* C17 witness: "i don't know sad", with the tag 'idk' and a flagged word, has
\* led from 'emotion_detection' to 'anecdote'.
C17_Witness ==
    /\ RespondedFrom("emotion_detection")
    /\ "idk" \in DOMAIN tags
    /\ FlaggedWordIn(message)
    /\ state = "anecdote"

\* C18: from 'feels_better', a message with the tag 'no' ends the flow through
\* finish('success'): the state is the default state and the reply is the
\* text of finish_success, whatever other tags the message has.
C18_NoFromFeelsBetter ==
    (RespondedFrom("feels_better") /\ "no" \in DOMAIN tags)
        => /\ err = "none"
           /\ calls = <<PrimCall("finish", "success", reply)>>
           /\ state = default_state
           /\ reply = "Awesome:) Glad we could talk this out! I gotta go to some stuff now, later!"

\* C18 witness: a message with the tags 'no' and 'yay' has led from
\* 'feels_better' to the default state.
C18_Witness ==
    /\ RespondedFrom("feels_better")
    /\ { "no", "yay" } \subseteq DOMAIN tags
    /\ state = default_state

\* C19: from 'waiting', a message without any tag and without a flagged word
\* is answered with the text of finish_confused and leaves the state at the
\* default state.
C19_ConfusedFromWaiting ==
    (RespondedFrom("waiting") /\ DOMAIN tags = {} /\ ~ FlaggedWordIn(message))
        => /\ err = "none"
           /\ reply = "Sorry, what did you say?"
           /\ state = default_state

\* C19 witness: "his", without tag or flagged word, has been answered from
\* 'waiting'.
C19_Witness ==
    /\ RespondedFrom("waiting")
    /\ message = <<"h", "i", "s">>
    /\ DOMAIN tags = {}
    /\ reply = finish_confused

----------------------------------------------------------------------------
(* The order of the conversation loop (SpecChat).                          *)

\* the line ends the loop
IsExitLine(line) == Lower(line) \in ExitWords

\* C20: chat() passes the lines it reads to respond in the order read, each
\* once, and none that is 'exit' or 'quit'; it stops only on such a line, on
\* the end of input or on an interrupt, and never with an error.
C20_ChatFeedsLinesInOrder ==
    /\ Len(fed) <= Len(lines)
    /\ \A i \in DOMAIN fed : fed[i] = lines[i] /\ ~ IsExitLine(fed[i])
    /\ pc = "chat_input" => fed = lines
    /\ pc = "chat_respond" => fed = SubSeq(lines, 1, Len(lines) - 1)
    /\ pc = "chat_returned"
         => IsExitLine(lines[Len(lines)]) /\ fed = SubSeq(lines, 1, Len(lines) - 1)
    /\ pc # "chat_crashed"

----------------------------------------------------------------------------
(* The construction of a bot: ChatBot.__init__ on a subclass of ChatBot.   *)

\* a tuple value of TAGS
Tuple(l) == [kind |-> "tuple", val |-> l]

\* an element of a list that is no str: the int 7
IntElem == "<int 7>"

\* the values a class may give to a phrase of TAGS: a tag, lists and a tuple
\* of tags, the empty list, a list of something else, an int
TagValues ==
    { Str("hi"), List(<<"hi">>), List(<<"hi", "bye">>), Tuple(<<"bye">>),
      List(<<>>), List(<<IntElem>>), [kind |-> "int", val |-> IntElem] }

\* TAGS of the subclasses of the model: at most two phrases
TagTables ==
    { <<>> }
    \cup { <<[phrase |-> <<"h", "i">>, tags |-> v]>> : v \in TagValues }
    \cup { <<[phrase |-> <<"h", "i">>, tags |-> v],
             [phrase |-> <<"b", "y", "e">>, tags |-> w]>> :
             v \in TagValues, w \in TagValues }

\* the states the subclasses of the model declare
StateNames == { "waiting", "hi" }

\* the default_state their __init__ passes
DefaultStates == { "waiting", "hi", "idle" }

\* the handlers they may define
HandlerNames ==
    { "on_enter_waiting", "respond_from_waiting", "on_enter_hi", "respond_from_hi" }

\* STATES of a subclass: the lists of at most n states; ChatBot.STATES is []
RECURSIVE StateLists(_)
StateLists(n) ==
    IF n = 0 THEN { <<>> }
    ELSE StateLists(n - 1)
         \cup { Append(l, s) : l \in { x \in StateLists(n - 1) : Len(x) = n - 1 },
                               s \in StateNames }

Subclasses ==
    { [STATES |-> l, TAGS |-> T, methods |-> ms] :
        l \in StateLists(MaxStates), T \in TagTables, ms \in SUBSET HandlerNames }

HandlerWarning(st, prefix) == [kind |-> "handler", state |-> st, prefix |-> prefix]

DefaultWarning(d) == [kind |-> "default_state", state |-> d, prefix |-> ""]

\* the on_enter warning _check_states prints for a state without the method
MissingOnEnter(k, st) ==
    IF ("on_enter_" \o st) \notin k.methods
    THEN <<HandlerWarning(st, "on_enter")>> ELSE <<>>

\* the respond_from warning _check_states prints for a state without the method
MissingRespondFrom(k, st) ==
    IF ("respond_from_" \o st) \notin k.methods
    THEN <<HandlerWarning(st, "respond_from")>> ELSE <<>>

\* _check_states that asks for on_enter_<state> of the default state too
RECURSIVE _check_states_all(_, _, _)
_check_states_all(k, d, n) ==
    IF n = 0 THEN <<>>
    ELSE _check_states_all(k, d, n - 1)
         \o MissingOnEnter(k, k.STATES[n])
         \o MissingRespondFrom(k, k.STATES[n])

\* ChatBot._check_states over the first n states of STATES: the warnings it
\* prints, in order
RECURSIVE _check_states(_, _, _)
_check_states(k, d, n) ==
    IF n = 0 THEN <<>>
    ELSE _check_states(k, d, n - 1)
         \o (IF k.STATES[n] # d THEN MissingOnEnter(k, k.STATES[n]) ELSE <<>>)
         \o MissingRespondFrom(k, k.STATES[n])

\* the first entry of the table on which the assertion of _check_tags fails,
\* 0 when there is none
FirstBadTags(table) ==
    LET bad == { i \in DOMAIN table : table[i].tags.kind \notin { "str", "list", "tuple" } }
    IN  IF bad = {} THEN 0 ELSE CHOOSE i \in bad : \A j \in bad : i <= j

\* the class attribute TAGS when _check_tags stops at entry n: the entries
\* before it are normalised in place
TagsCheckedUpTo(table, n) ==
    [i \in DOMAIN table |-> IF i < n THEN _check_tags(table)[i] ELSE table[i]]

\* ChatBot.__init__(default_state = d) on an instance of the class k: the
\* exception it raises, self.state, the warnings printed and the class
\* attribute TAGS afterwards
ChatBot_init(k, d) ==
    IF d \notin Range(k.STATES) /\ k.STATES = <<>>
    THEN [err |-> "IndexError", state |-> None, warnings |-> <<>>, TAGS |-> k.TAGS]
    ELSE LET w == (IF d \notin Range(k.STATES) THEN <<DefaultWarning(d)>> ELSE <<>>)
                  \o _check_states(k, d, Len(k.STATES))
             n == FirstBadTags(k.TAGS)
         IN  IF n = 0
             THEN [err |-> "none", state |-> d, warnings |-> w,
                   TAGS |-> _check_tags(k.TAGS)]
             ELSE [err |-> "AssertionError", state |-> d, warnings |-> w,
                   TAGS |-> TagsCheckedUpTo(k.TAGS, n)]

\* a class is defined and no instance of it built yet: OxyCSBot, whose
\* __init__ passes 'waiting', or a subclass of the model
InitNew ==
    /\ \/ klass = OxyCSBotClass /\ arg = default_state
       \/ klass \in Subclasses /\ arg \in DefaultStates
    /\ state = None
    /\ prev = None
    /\ pc = "new"
    /\ op = ""
    /\ message = <<>>
    /\ reply = None
    /\ err = "none"
    /\ calls = <<>>
    /\ tags = EmptyCounter
    /\ tagsUpper = EmptyCounter
    /\ channel = ""
    /\ hist = <<>>
    /\ warnings = <<>>
    /\ lines = <<>>
    /\ fed = <<>>

\* bot = klass(), with default_state = arg
Construct ==
    /\ pc = "new"
    /\ LET o == ChatBot_init(klass, arg)
       IN  /\ err' = o.err
           /\ state' = o.state
           /\ warnings' = o.warnings
           /\ klass' = [klass EXCEPT !.TAGS = o.TAGS]
           /\ pc' = IF o.err = "none" THEN "built" ELSE "not_built"
    /\ op' = "__init__"
    /\ UNCHANGED <<prev, arg, message, reply, calls, tags, tagsUpper, channel, hist,
                   lines, fed>>

\* what a handler of a subclass of the model returns
SubclassResponse == "response"

\* a handler that raises instead of returning
HandlerRaises == "<raises>"

\* what a call of the on_enter_* or finish_* method `name` of the class k
\* does: the methods of OxyCSBot return one of their responses, a method of
\* a subclass of the model returns its response or raises
CallHandler(k, name) ==
    IF k.methods = Methods THEN Produce(name)
    ELSE { SubclassResponse, HandlerRaises }

\* go_to_state that sets self.state before it looks for on_enter_<state>
ChatBot_go_to_state_commit_first(k, d, cur, s) ==
    IF s \notin Range(k.STATES)
    THEN { Raises(cur, "AssertionError", <<PrimCall("go_to_state", s, None)>>) }
    ELSE IF s = d
    THEN { Raises(cur, "AssertionError", <<PrimCall("go_to_state", s, None)>>) }
    ELSE IF ("on_enter_" \o s) \notin k.methods
    THEN { Raises(s, "AttributeError", <<PrimCall("go_to_state", s, None)>>) }
    ELSE { IF r = HandlerRaises
           THEN Raises(s, "Exception", <<PrimCall("go_to_state", s, None)>>)
           ELSE Returns(s, r, <<PrimCall("go_to_state", s, r)>>) :
             r \in CallHandler(k, "on_enter_" \o s) }

\* ChatBot.go_to_state(s) on an instance of the class k built with the
\* default state d, called with self.state = cur
ChatBot_go_to_state(k, d, cur, s) ==
    IF s \notin Range(k.STATES)
    THEN { Raises(cur, "AssertionError", <<PrimCall("go_to_state", s, None)>>) }
    ELSE IF s = d
    THEN { Raises(cur, "AssertionError", <<PrimCall("go_to_state", s, None)>>) }
    ELSE IF ("on_enter_" \o s) \notin k.methods
    THEN { Raises(cur, "AttributeError", <<PrimCall("go_to_state", s, None)>>) }
    ELSE { IF r = HandlerRaises
           THEN Raises(cur, "Exception", <<PrimCall("go_to_state", s, None)>>)
           ELSE Returns(s, r, <<PrimCall("go_to_state", s, r)>>) :
             r \in CallHandler(k, "on_enter_" \o s) }

\* ChatBot.finish(manner) on an instance of the class k built with the
\* default state d, called with self.state = cur
ChatBot_finish(k, d, cur, manner) ==
    IF ("finish_" \o manner) \notin k.methods
    THEN { Raises(cur, "AttributeError", <<PrimCall("finish", manner, None)>>) }
    ELSE { IF r = HandlerRaises
           THEN Raises(cur, "Exception", <<PrimCall("finish", manner, None)>>)
           ELSE Returns(d, r, <<PrimCall("finish", manner, r)>>) :
             r \in CallHandler(k, "finish_" \o manner) }

\* the states a client of the built bot passes to go_to_state
TargetStates == StateNames \cup DefaultStates \cup { "anecdote", "office_hours" }

\* bot.go_to_state(s) on the bot built; arg stays the default state it was
\* built with, the call is recorded in calls
GoToStateNew ==
    /\ pc \in { "built", "called" }
    /\ \E s \in TargetStates :
         \E o \in ChatBot_go_to_state(klass, arg, state, s) : Outcome(o)
    /\ op' = "go_to_state"
    /\ pc' = "called"
    /\ UNCHANGED <<klass, warnings, arg, message, tags, tagsUpper, channel, hist,
                   lines, fed>>

\* bot.finish(manner) on the bot built
FinishNew ==
    /\ pc \in { "built", "called" }
    /\ \E manner \in Manners :
         \E o \in ChatBot_finish(klass, arg, state, manner) : Outcome(o)
    /\ op' = "finish"
    /\ pc' = "called"
    /\ UNCHANGED <<klass, warnings, arg, message, tags, tagsUpper, channel, hist,
                   lines, fed>>

NextNew == Construct \/ GoToStateNew \/ FinishNew

SpecNew == InitNew /\ [][NextNew]_vars

\* __init__ has run
Constructed == pc \in { "built", "not_built" }

\* the value is a non-empty list (or tuple) of tags
IsTagList(v) ==
    /\ v.kind \in { "list", "tuple" }
    /\ v.val # <<>>
    /\ \A i \in DOMAIN v.val : v.val[i] # IntElem

\* C12: once a bot is constructed, every value of its tag table is a
\* non-empty list of tags; the construction fails when a value is neither a
\* tag nor a list of tags.
C12_TagValuesAreTagLists ==
    pc = "built" => \A i \in DOMAIN klass.TAGS : IsTagList(klass.TAGS[i].tags)

\* C13: the warnings of the construction are not fatal: unless the tag table
\* is refused, the construction completes with the current state equal to the
\* default state given, for every STATES list.
C13_WarningsAreNotFatal ==
    (Constructed /\ err # "AssertionError") => (err = "none" /\ state = arg)

\* the handlers declared states need: respond_from_<s> for every declared
\* state, on_enter_<s> for every declared state but the default state
RequiredAndMissing(k, d) ==
    { HandlerWarning(s, "respond_from") :
        s \in { x \in Range(k.STATES) : ("respond_from_" \o x) \notin k.methods } }
    \cup
    { HandlerWarning(s, "on_enter") :
        s \in { x \in Range(k.STATES) \ { d } : ("on_enter_" \o x) \notin k.methods } }

\* C14: the handler warnings of the construction are those of the declared
\* states whose required handler is missing, and no others; OxyCSBot gets
\* none.
C14_WarnsExactlyForMissingRequiredHandlers ==
    Constructed
        => /\ { w \in Range(warnings) : w.kind = "handler" }
                = RequiredAndMissing(klass, arg)
           /\ klass.STATES = STATES => warnings = <<>>

\* C14 witness: a bot is built whose default state is declared and has no
\* on_enter method: no warning names it, while respond_from_hi, missing, is
\* warned about.
C14_Witness ==
    /\ pc = "built"
    /\ klass.STATES = <<"waiting", "hi">>
    /\ arg = "waiting"
    /\ klass.methods = { "respond_from_waiting", "on_enter_hi" }
    /\ warnings = <<HandlerWarning("hi", "respond_from")>>

\* C21: a go_to_state or a finish that fails leaves the current state as it
\* was before the call: for go_to_state of the default state, of an
\* undeclared state, of a state whose on_enter method is missing or raises,
\* and for finish of a manner without a finish method.
C21_FailedTransitionKeepsState ==
    (op \in { "go_to_state", "finish" } /\ err # "none") => state = prev

\* C21 witness: in the state 'waiting', entered from the undeclared default
\* state 'idle', go_to_state('hi') has failed because on_enter_hi raised, and
\* the state is still 'waiting'.
C21_Witness ==
    /\ pc = "called" /\ op = "go_to_state"
    /\ arg = "idle" /\ prev = "waiting"
    /\ calls = <<PrimCall("go_to_state", "hi", None)>>
    /\ err = "Exception"
    /\ state = "waiting"

====
